---- MODULE Spec2Model ----
(***************************************************************************)
(* The offline-first sync engine of the GeoSentinel station tracker.       *)
(*                                                                         *)
(* The repository holds three revisions of the Electron main process:      *)
(*   src/main.js           the while(true) sync worker          (Spec)     *)
(*                         the same under fair scheduling       (SpecLive) *)
(*   src/unnamed/part_000  the setInterval sync worker          (SpecInterval)*)
(*   src/unnamed/part_001  the self-rescheduling sync worker    (SpecResched)*)
(* All three share the module-level state authToken / db and the SQLite    *)
(* table `locations`; the IPC handlers autoLogin, sendLocation and         *)
(* sendHeartbeat of main.js and part_001 are the same code.                *)
(*                                                                         *)
(* JavaScript runs handlers to their next `await` without interleaving, so *)
(* every action below is one run-to-suspension segment of a handler: from  *)
(* a timer / IPC call / network response to the next await or return.      *)
(***************************************************************************)
EXTENDS Integers, Sequences, FiniteSets, Bags, TLC

\* ------------------------------------------------------------------ values

\* `let authToken = null` and the station id that getStationId() may return.
NULL == "null"
\* res.data.token of a successful auto-login (opaque, its value is never read).
TOKEN == "token"
\* The station id of --station=<id> / config.json.
STATION == "station"

\* `let retryDelay = 10000` and every `retryDelay = 10000`.
BaseDelay == 10000
\* The cap of Math.min(retryDelay * 2, 60000).
MaxDelay == 60000
\* SELECT * FROM locations LIMIT 20.
BatchLimit == 20

\* ------------------------------------------------------------------ bounds

\* Rows already in local.db when the process starts (left by an earlier run).
MaxBacklog == 25
\* sendLocation calls that insert a row, per behaviour.
MaxInserts == 1

\* Callbacks of part_000 (sync-interval callbacks and sendHeartbeat calls)
\* that may be suspended at once.
MaxTasks == 2

\* The count of consecutive failed cycles stops rising here (from three
\* failures on the capped delay no longer changes).
MaxStreak == 3

\* ------------------------------------------------------------------- state

VARIABLES
    authToken,      \* let authToken            NULL or TOKEN
    retryDelay,     \* let retryDelay           milliseconds
    db,             \* let db                   FALSE: undefined, TRUE: opened
    locations,      \* table locations          the set of row ids present
    seq,            \* sqlite_sequence          largest id AUTOINCREMENT has given
    configFile,     \* config.json              NULL or the stored station id
    argvStation,    \* process.argv             NULL or the --station= value
    backlog,        \* rows in local.db when the first run started
    workerStarted,  \* let workerStarted
    worker,         \* startSyncWorker's position: [pc, rows]
    singles,        \* sendLocation calls awaiting POST /api/location/update (insertedId)
    renderer,       \* renderer.js: "none", "init", "auth" (awaiting autoLogin),
                    \*              "tracking" (startTracking ran), "stopped"
    heartbeats,     \* a sendHeartbeat call awaits POST /api/heartbeat
    crashes,        \* the process has crashed and restarted at least once
    \* history of the run, read by the properties only
    ackSingle,      \* ids whose single-record upload the service acknowledged
    ackBatch,       \* ids contained in a batch upload the service acknowledged
    lateRows,       \* ids sendLocation inserted while the current / last batch
                    \* post was in flight
    clean,          \* TRUE while no crash and no failed network call happened
    cycStart,       \* locations at the start of the current / last cycle
    cycLogin,       \* the current / last cycle logged in itself (tryReLogin succeeded)
    prevOutcome,    \* how the last completed cycle of this run ended
    autoSince,      \* autoLogin stored a token since the last cycle ended
    loginSinceBoot, \* some login succeeded since the process (re)started
    \* src/unnamed/part_000
    syncInterval,   \* let syncInterval         FALSE: null, TRUE: the interval is set
    tasks,          \* the bag of suspended callbacks [kind, pc, rows, hdr, via]
    \* src/unnamed/part_001
    workerRunning,  \* let workerRunning
    timers,         \* pending setTimeout(syncWorker, retryDelay) timers
    armedDelay,     \* the delay the last of these timers was armed with
    \* history of the sync worker (main.js and part_001)
    streak,         \* failed cycles since the last fully successful one (or the start)
    streakAuto      \* autoLogin stored a token during this streak

storeVars == <<db, locations, seq, configFile, argvStation, backlog>>
sessVars == <<authToken, retryDelay>>
workVars == <<workerStarted, worker>>
ipcVars == <<singles, renderer, heartbeats>>
ackVars == <<ackSingle, ackBatch, lateRows>>
cycVars == <<cycStart, cycLogin, prevOutcome>>
histVars == <<clean, autoSince, loginSinceBoot>>

timerVars == <<workerRunning, timers, armedDelay>>
reschedVars == <<timerVars, streak>>
mainVars == <<workVars, ipcVars, crashes, ackVars, cycVars, histVars, reschedVars, streakAuto>>
intervalVars == <<syncInterval, tasks>>

vars == <<storeVars, sessVars, mainVars, intervalVars>>

\* ----------------------------------------------------------------- helpers

Min(a, b) == IF a < b THEN a ELSE b

\* Mutant of Backoff: the doubling without its cap.
Backoff_NoCap(d) == d * 2

\* Math.min(retryDelay * 2, 60000)
Backoff(d) == Min(d * 2, MaxDelay)

\* The elements of a sequence.
Range(s) == {s[i] : i \in 1..Len(s)}

\* Mutant of SelectLimit: the 20 newest rows, newest first
\* (ORDER BY id DESC LIMIT 20).
SelectLimit_Newest(table) ==
    LET ids == {i \in table : Cardinality({j \in table : j > i}) < BatchLimit}
    IN  [p \in 1..Cardinality(ids) |->
            CHOOSE i \in ids : Cardinality({j \in ids : j > i}) = p - 1]

\* The scan of the table's rowid b-tree from `id` upwards, stopped after n
\* rows: the rows come in ascending id.
RECURSIVE ScanFrom(_, _, _)
ScanFrom(table, id, n) ==
    IF n = 0 \/ table = {}
    THEN <<>>
    ELSE IF id \in table
         THEN <<id>> \o ScanFrom(table \ {id}, id + 1, n - 1)
         ELSE ScanFrom(table, id + 1, n)

\* SELECT * FROM locations LIMIT 20: a scan of the table's rowid b-tree (the
\* table has no other index), so rows come in ascending id, the first 20.
SelectLimit(table) == ScanFrom(table, 1, BatchLimit)

\* getStationId(): config.json's stationId, null when the file is missing.
GetStationId == configFile

Idle == [pc |-> "sleep", rows |-> <<>>]

\* One more failed cycle in the streak.
StreakUp == streak' = Min(streak + 1, MaxStreak)

\* -------------------------------------------------------------------- Init

\* local.db and config.json as an earlier run may have left them, and the
\* command line of this run.
InitStore ==
    /\ db = FALSE
    /\ backlog \in {0, MaxBacklog}
    /\ locations = 1..backlog
    /\ seq = backlog
    /\ configFile \in {NULL, STATION}
    /\ argvStation \in {NULL, STATION}
    /\ configFile = NULL \/ argvStation = NULL

\* The module-level `let`s of main.js, and nothing in flight.
InitMain ==
    /\ workerStarted = FALSE
    /\ worker = [pc |-> "off", rows |-> <<>>]
    /\ singles = {}
    /\ renderer = "none"
    /\ heartbeats = FALSE
    /\ crashes = FALSE
    /\ ackSingle = {}
    /\ ackBatch = {}
    /\ lateRows = {}
    /\ clean = TRUE
    /\ cycStart = {}
    /\ cycLogin = FALSE
    /\ prevOutcome = "none"
    /\ autoSince = FALSE
    /\ loginSinceBoot = FALSE

\* `let syncInterval = null` of part_000, and no callback running.
InitInterval ==
    /\ syncInterval = FALSE
    /\ tasks = EmptyBag

\* `let workerRunning = false` of part_001, and no timer armed.
InitResched ==
    /\ workerRunning = FALSE
    /\ timers = 0
    /\ armedDelay = BaseDelay
    /\ streak = 0
    /\ streakAuto = FALSE

Init ==
    /\ authToken = NULL
    /\ retryDelay = BaseDelay
    /\ InitStore
    /\ InitMain
    /\ InitInterval
    /\ InitResched

\* ------------------------------------------------- src/main.js: app ready

\* handleStationArgument(): --station=<id> overwrites config.json.
HandleStationArgument ==
    configFile' = IF argvStation # NULL THEN argvStation ELSE configFile

\* Mutant of AppReady: the table is created anew at every start
\* (DROP TABLE / CREATE TABLE instead of CREATE TABLE IF NOT EXISTS).
AppReady_Recreate ==
    /\ db = FALSE
    /\ db' = TRUE
    /\ locations' = {}
    /\ seq' = seq
    /\ HandleStationArgument
    /\ renderer' = "init"
    /\ worker' = [pc |-> "boot", rows |-> <<>>]
    /\ UNCHANGED <<argvStation, backlog, workerStarted, singles, heartbeats>>
    /\ UNCHANGED <<sessVars, crashes, ackVars, cycVars, histVars>>
    /\ UNCHANGED <<intervalVars, reschedVars, streakAuto>>

\* app.whenReady(): open local.db, CREATE TABLE IF NOT EXISTS (rows kept),
\* write the station argument, create the window (which loads renderer.js),
\* arm the 5 s timer that starts the worker.
AppReady ==
    /\ db = FALSE
    /\ db' = TRUE
    /\ locations' = locations
    /\ seq' = seq
    /\ HandleStationArgument
    /\ renderer' = "init"
    /\ worker' = [pc |-> "boot", rows |-> <<>>]
    /\ UNCHANGED <<argvStation, backlog, workerStarted, singles, heartbeats>>
    /\ UNCHANGED <<sessVars, crashes, ackVars, cycVars, histVars>>
    /\ UNCHANGED <<intervalVars, reschedVars, streakAuto>>

\* The 5 s timer: if (!workerStarted) { workerStarted = true; startSyncWorker() }
\* startSyncWorker runs to its first await, the retryDelay timer.
StartWorker ==
    /\ worker.pc = "boot"
    /\ ~workerStarted
    /\ workerStarted' = TRUE
    /\ worker' = Idle
    /\ UNCHANGED <<storeVars, sessVars, ipcVars, crashes, ackVars, cycVars, histVars>>
    /\ UNCHANGED <<intervalVars, reschedVars, streakAuto>>

\* ------------------------------------------- src/main.js: startSyncWorker

\* Lines 272-283, reached with a token held: read the batch; nothing pending
\* resets the delay and goes back to the timer, otherwise the batch is posted.
ReadAndUpload ==
    LET rows == SelectLimit(locations)
    IN  IF Len(rows) = 0
        THEN /\ retryDelay' = BaseDelay
             /\ worker' = Idle
             /\ prevOutcome' = "empty"
             /\ autoSince' = FALSE
             /\ streak' = 0
             /\ lateRows' = {}
        ELSE /\ retryDelay' = retryDelay
             /\ worker' = [pc |-> "upload", rows |-> rows]
             /\ prevOutcome' = prevOutcome
             /\ autoSince' = autoSince
             /\ streak' = streak
             /\ lateRows' = {}

\* The retryDelay timer resolves with no token and no station id:
\* tryReLogin returns false at once, the delay doubles, `continue`.
CycleNoStation ==
    /\ worker.pc = "sleep"
    /\ authToken = NULL
    /\ GetStationId = NULL
    /\ retryDelay' = Backoff(retryDelay)
    /\ cycStart' = locations
    /\ cycLogin' = FALSE
    /\ prevOutcome' = "loginFail"
    /\ autoSince' = FALSE
    /\ UNCHANGED <<storeVars, authToken, workVars, ipcVars, crashes, ackVars>>
    /\ UNCHANGED <<clean, loginSinceBoot>>
    /\ StreakUp
    /\ UNCHANGED <<intervalVars, timerVars, streakAuto>>

\* The timer resolves with no token: tryReLogin posts the auto-login.
CycleLogin ==
    /\ worker.pc = "sleep"
    /\ authToken = NULL
    /\ GetStationId # NULL
    /\ worker' = [pc |-> "login", rows |-> <<>>]
    /\ cycStart' = locations
    /\ cycLogin' = FALSE
    /\ UNCHANGED <<storeVars, sessVars, workerStarted, ipcVars, crashes, ackVars>>
    /\ UNCHANGED <<prevOutcome, histVars>>
    /\ UNCHANGED <<intervalVars, reschedVars, streakAuto>>

\* The timer resolves with a token held: straight to the batch.
CycleWithToken ==
    /\ worker.pc = "sleep"
    /\ authToken # NULL
    /\ ReadAndUpload
    /\ cycStart' = locations
    /\ cycLogin' = FALSE
    /\ UNCHANGED <<storeVars, authToken, workerStarted, ipcVars, crashes, ackSingle, ackBatch>>
    /\ UNCHANGED <<clean, loginSinceBoot>>
    /\ UNCHANGED <<intervalVars, timerVars, streakAuto>>

\* tryReLogin's post succeeds: the token is stored, the cycle goes on.
LoginSuccess ==
    /\ worker.pc = "login"
    /\ authToken' = TOKEN
    /\ ReadAndUpload
    /\ cycLogin' = TRUE
    /\ loginSinceBoot' = TRUE
    /\ UNCHANGED <<storeVars, workerStarted, ipcVars, crashes, ackSingle, ackBatch>>
    /\ UNCHANGED <<cycStart, clean>>
    /\ UNCHANGED <<intervalVars, timerVars, streakAuto>>

\* Mutant of LoginFailure: the `continue` of line 268 is missing, so the
\* cycle goes on to read the batch and post it.
LoginFailure_NoContinue ==
    /\ worker.pc = "login"
    /\ retryDelay' = Backoff(retryDelay)
    /\ worker' = IF locations = {} THEN Idle
                 ELSE [pc |-> "upload", rows |-> SelectLimit(locations)]
    /\ prevOutcome' = "loginFail"
    /\ autoSince' = FALSE
    /\ clean' = FALSE
    /\ lateRows' = {}
    /\ UNCHANGED <<storeVars, authToken, workerStarted, ipcVars, crashes>>
    /\ UNCHANGED <<ackSingle, ackBatch, cycStart, cycLogin, loginSinceBoot>>
    /\ StreakUp
    /\ UNCHANGED <<intervalVars, timerVars, streakAuto>>

\* Mutant of LoginFailure: the failed login leaves the delay as it is.
LoginFailure_NoBackoff ==
    /\ worker.pc = "login"
    /\ retryDelay' = retryDelay
    /\ worker' = Idle
    /\ prevOutcome' = "loginFail"
    /\ autoSince' = FALSE
    /\ clean' = FALSE
    /\ UNCHANGED <<storeVars, authToken, workerStarted, ipcVars, crashes, ackVars>>
    /\ UNCHANGED <<cycStart, cycLogin, loginSinceBoot>>
    /\ StreakUp
    /\ UNCHANGED <<intervalVars, timerVars, streakAuto>>

\* tryReLogin's post fails: the delay doubles, `continue`.
LoginFailure ==
    /\ worker.pc = "login"
    /\ retryDelay' = Backoff(retryDelay)
    /\ worker' = Idle
    /\ prevOutcome' = "loginFail"
    /\ autoSince' = FALSE
    /\ clean' = FALSE
    /\ UNCHANGED <<storeVars, authToken, workerStarted, ipcVars, crashes, ackVars>>
    /\ UNCHANGED <<cycStart, cycLogin, loginSinceBoot>>
    /\ StreakUp
    /\ UNCHANGED <<intervalVars, timerVars, streakAuto>>

\* Mutant of UploadSuccess: a DELETE that finds its row gone throws (`if
\* (info.changes === 0) throw`), the transaction is rolled back and the catch
\* of line 296 runs.
UploadSuccess_StrictDelete ==
    /\ worker.pc = "upload"
    /\ worker' = Idle
    /\ ackBatch' = ackBatch \cup Range(worker.rows)
    /\ autoSince' = FALSE
    /\ IF Range(worker.rows) \subseteq locations
       THEN /\ locations' = locations \ Range(worker.rows)
            /\ authToken' = authToken
            /\ retryDelay' = BaseDelay
            /\ prevOutcome' = "ok"
            /\ streak' = 0
       ELSE /\ locations' = locations
            /\ authToken' = NULL
            /\ retryDelay' = Backoff(retryDelay)
            /\ prevOutcome' = "missingRow"
            /\ StreakUp
    /\ UNCHANGED <<db, seq, configFile, argvStation, backlog>>
    /\ UNCHANGED <<workerStarted, ipcVars, crashes, ackSingle, lateRows>>
    /\ UNCHANGED <<cycStart, cycLogin, clean, loginSinceBoot>>
    /\ UNCHANGED <<intervalVars, timerVars, streakAuto>>

\* Mutant of UploadSuccess: the transaction empties the table
\* (DELETE FROM locations) instead of deleting the posted rows by id.
UploadSuccess_DeleteAll ==
    /\ worker.pc = "upload"
    /\ locations' = {}
    /\ retryDelay' = BaseDelay
    /\ worker' = Idle
    /\ ackBatch' = ackBatch \cup Range(worker.rows)
    /\ prevOutcome' = "ok"
    /\ autoSince' = FALSE
    /\ UNCHANGED <<db, seq, configFile, argvStation, backlog>>
    /\ UNCHANGED <<authToken, workerStarted, ipcVars, crashes, ackSingle, lateRows>>
    /\ UNCHANGED <<cycStart, cycLogin, clean, loginSinceBoot>>
    /\ streak' = 0
    /\ UNCHANGED <<intervalVars, timerVars, streakAuto>>

\* Mutant of UploadSuccess: the delay is not reset after the upload.
UploadSuccess_KeepDelay ==
    /\ worker.pc = "upload"
    /\ locations' = locations \ Range(worker.rows)
    /\ retryDelay' = retryDelay
    /\ worker' = Idle
    /\ ackBatch' = ackBatch \cup Range(worker.rows)
    /\ prevOutcome' = "ok"
    /\ autoSince' = FALSE
    /\ UNCHANGED <<db, seq, configFile, argvStation, backlog>>
    /\ UNCHANGED <<authToken, workerStarted, ipcVars, crashes, ackSingle, lateRows>>
    /\ UNCHANGED <<cycStart, cycLogin, clean, loginSinceBoot>>
    /\ streak' = 0
    /\ UNCHANGED <<intervalVars, timerVars, streakAuto>>

\* Mutant of UploadSuccess: the acknowledged batch is not deleted.
UploadSuccess_KeepRows ==
    /\ worker.pc = "upload"
    /\ locations' = locations
    /\ retryDelay' = BaseDelay
    /\ worker' = Idle
    /\ ackBatch' = ackBatch \cup Range(worker.rows)
    /\ prevOutcome' = "ok"
    /\ autoSince' = FALSE
    /\ UNCHANGED <<db, seq, configFile, argvStation, backlog>>
    /\ UNCHANGED <<authToken, workerStarted, ipcVars, crashes, ackSingle, lateRows>>
    /\ UNCHANGED <<cycStart, cycLogin, clean, loginSinceBoot>>
    /\ streak' = 0
    /\ UNCHANGED <<intervalVars, timerVars, streakAuto>>

\* The batch post succeeds: the transaction deletes the posted rows by id.
UploadSuccess ==
    /\ worker.pc = "upload"
    /\ locations' = locations \ Range(worker.rows)
    /\ retryDelay' = BaseDelay
    /\ worker' = Idle
    /\ ackBatch' = ackBatch \cup Range(worker.rows)
    /\ prevOutcome' = "ok"
    /\ autoSince' = FALSE
    /\ UNCHANGED <<db, seq, configFile, argvStation, backlog>>
    /\ UNCHANGED <<authToken, workerStarted, ipcVars, crashes, ackSingle, lateRows>>
    /\ UNCHANGED <<cycStart, cycLogin, clean, loginSinceBoot>>
    /\ streak' = 0
    /\ UNCHANGED <<intervalVars, timerVars, streakAuto>>

\* Mutant of UploadFailure: the catch leaves the token in place.
UploadFailure_KeepToken ==
    /\ worker.pc = "upload"
    /\ authToken' = authToken
    /\ retryDelay' = Backoff(retryDelay)
    /\ worker' = Idle
    /\ prevOutcome' = "uploadFail"
    /\ autoSince' = FALSE
    /\ clean' = FALSE
    /\ UNCHANGED <<storeVars, workerStarted, ipcVars, crashes, ackVars>>
    /\ UNCHANGED <<cycStart, cycLogin, loginSinceBoot>>
    /\ StreakUp
    /\ UNCHANGED <<intervalVars, timerVars, streakAuto>>

\* The batch post fails: catch { authToken = null; retryDelay doubles }.
UploadFailure ==
    /\ worker.pc = "upload"
    /\ authToken' = NULL
    /\ retryDelay' = Backoff(retryDelay)
    /\ worker' = Idle
    /\ prevOutcome' = "uploadFail"
    /\ autoSince' = FALSE
    /\ clean' = FALSE
    /\ UNCHANGED <<storeVars, workerStarted, ipcVars, crashes, ackVars>>
    /\ UNCHANGED <<cycStart, cycLogin, loginSinceBoot>>
    /\ StreakUp
    /\ UNCHANGED <<intervalVars, timerVars, streakAuto>>

\* The batch post succeeds and a DELETE of the transaction throws (an I/O
\* error, a full disk): better-sqlite3 rolls the transaction back, so no row
\* of the batch is deleted, and the exception reaches the catch of line 296.
DeleteFailure ==
    /\ worker.pc = "upload"
    /\ locations' = locations
    /\ ackBatch' = ackBatch \cup Range(worker.rows)
    /\ authToken' = NULL
    /\ retryDelay' = Backoff(retryDelay)
    /\ worker' = Idle
    /\ prevOutcome' = "deleteFail"
    /\ autoSince' = FALSE
    /\ clean' = FALSE
    /\ StreakUp
    /\ UNCHANGED <<db, seq, configFile, argvStation, backlog>>
    /\ UNCHANGED <<workerStarted, ipcVars, crashes, ackSingle, lateRows>>
    /\ UNCHANGED <<cycStart, cycLogin, loginSinceBoot>>
    /\ UNCHANGED <<intervalVars, timerVars, streakAuto>>

\* ----------------------------------------------- src/main.js: IPC handlers

\* Mutant of SendLocation: the id column is a plain INTEGER PRIMARY KEY
\* (no AUTOINCREMENT), so the new row gets the largest id present plus one
\* and the id of a deleted row can come back.  (seq counts the inserts.)
SendLocation_MaxRowid ==
    LET top == IF locations = {} THEN 0
               ELSE CHOOSE i \in locations : \A j \in locations : j <= i
    IN  /\ renderer = "tracking"
        /\ db
        /\ seq - backlog < MaxInserts
        /\ seq' = seq + 1
        /\ locations' = locations \cup {top + 1}
        /\ singles' = IF authToken # NULL THEN singles \cup {top + 1} ELSE singles
        /\ lateRows' = IF worker.pc = "upload" THEN lateRows \cup {top + 1} ELSE lateRows
        /\ UNCHANGED <<db, configFile, argvStation, backlog>>
        /\ UNCHANGED <<sessVars, workVars, renderer, heartbeats, crashes>>
        /\ UNCHANGED <<ackSingle, ackBatch, cycVars, histVars>>
        /\ UNCHANGED <<intervalVars, reschedVars, streakAuto>>

\* sendLocation, called by the renderer's location loop (renderer.js:100):
\* insert the row; with a token held, post the single update.
SendLocation ==
    /\ renderer = "tracking"
    /\ db
    /\ seq - backlog < MaxInserts
    /\ seq' = seq + 1
    /\ locations' = locations \cup {seq + 1}
    /\ singles' = IF authToken # NULL THEN singles \cup {seq + 1} ELSE singles
    /\ lateRows' = IF worker.pc = "upload" THEN lateRows \cup {seq + 1} ELSE lateRows
    /\ UNCHANGED <<db, configFile, argvStation, backlog>>
    /\ UNCHANGED <<sessVars, workVars, renderer, heartbeats, crashes>>
    /\ UNCHANGED <<ackSingle, ackBatch, cycVars, histVars>>
    /\ UNCHANGED <<intervalVars, reschedVars, streakAuto>>

\* The single update is acknowledged: DELETE FROM locations WHERE id = insertedId.
SingleSuccess(id) ==
    /\ id \in singles
    /\ singles' = singles \ {id}
    /\ locations' = locations \ {id}
    /\ ackSingle' = ackSingle \cup {id}
    /\ UNCHANGED <<db, seq, configFile, argvStation, backlog>>
    /\ UNCHANGED <<sessVars, workVars, renderer, heartbeats, crashes>>
    /\ UNCHANGED <<ackBatch, lateRows, cycVars, histVars>>
    /\ UNCHANGED <<intervalVars, reschedVars, streakAuto>>

\* Mutant of SingleFailure: the row is deleted although the post failed
\* (the DELETE moved out of the try block).
SingleFailure_Delete(id) ==
    /\ id \in singles
    /\ singles' = singles \ {id}
    /\ locations' = locations \ {id}
    /\ clean' = FALSE
    /\ UNCHANGED <<db, seq, configFile, argvStation, backlog>>
    /\ UNCHANGED <<sessVars, workVars, renderer, heartbeats, crashes>>
    /\ UNCHANGED <<ackVars, cycVars, autoSince, loginSinceBoot>>
    /\ UNCHANGED <<intervalVars, reschedVars, streakAuto>>

\* Mutant of SingleFailure: the catch clears the token
\* (catch { authToken = null }).
SingleFailure_ClearToken(id) ==
    /\ id \in singles
    /\ singles' = singles \ {id}
    /\ locations' = locations
    /\ authToken' = NULL
    /\ clean' = FALSE
    /\ UNCHANGED <<db, seq, configFile, argvStation, backlog>>
    /\ UNCHANGED <<retryDelay, workVars, renderer, heartbeats, crashes>>
    /\ UNCHANGED <<ackVars, cycVars, autoSince, loginSinceBoot>>
    /\ UNCHANGED <<intervalVars, reschedVars, streakAuto>>

\* The single update fails: catch { }.
SingleFailure(id) ==
    /\ id \in singles
    /\ singles' = singles \ {id}
    /\ locations' = locations
    /\ clean' = FALSE
    /\ UNCHANGED <<db, seq, configFile, argvStation, backlog>>
    /\ UNCHANGED <<sessVars, workVars, renderer, heartbeats, crashes>>
    /\ UNCHANGED <<ackVars, cycVars, autoSince, loginSinceBoot>>
    /\ UNCHANGED <<intervalVars, reschedVars, streakAuto>>

\* renderer.js DOMContentLoaded with no station id configured: the page
\* shows the error and calls nothing else.
RendererNoStation ==
    /\ renderer = "init"
    /\ GetStationId = NULL
    /\ renderer' = "stopped"
    /\ UNCHANGED <<storeVars, sessVars, workVars, singles, heartbeats, crashes>>
    /\ UNCHANGED <<ackVars, cycVars, histVars>>
    /\ UNCHANGED <<intervalVars, reschedVars, streakAuto>>

\* renderer.js DOMContentLoaded with a station id: autoLogin is invoked and
\* its handler posts the auto-login.
AutoLoginCall ==
    /\ renderer = "init"
    /\ GetStationId # NULL
    /\ renderer' = "auth"
    /\ UNCHANGED <<storeVars, sessVars, workVars, singles, heartbeats, crashes>>
    /\ UNCHANGED <<ackVars, cycVars, histVars>>
    /\ UNCHANGED <<intervalVars, reschedVars, streakAuto>>

\* autoLogin's post succeeds: authToken = res.data.token; retryDelay = 10000;
\* return true, on which the renderer starts its location and heartbeat loops.
AutoLoginSuccess ==
    /\ renderer = "auth"
    /\ renderer' = "tracking"
    /\ authToken' = TOKEN
    /\ retryDelay' = BaseDelay
    /\ autoSince' = TRUE
    /\ streakAuto' = TRUE
    /\ loginSinceBoot' = TRUE
    /\ UNCHANGED <<storeVars, workVars, singles, heartbeats, crashes>>
    /\ UNCHANGED <<ackVars, cycVars, clean>>
    /\ UNCHANGED <<intervalVars, reschedVars>>

\* autoLogin's post fails: return false, and the renderer stops.
AutoLoginFailure ==
    /\ renderer = "auth"
    /\ renderer' = "stopped"
    /\ clean' = FALSE
    /\ UNCHANGED <<storeVars, sessVars, workVars, singles, heartbeats, crashes>>
    /\ UNCHANGED <<ackVars, cycVars, autoSince, loginSinceBoot>>
    /\ UNCHANGED <<intervalVars, reschedVars, streakAuto>>

\* sendHeartbeat: if (!authToken) return; post the heartbeat.  The renderer
\* calls it every 60 s (renderer.js:169) and a post times out after 15 s
\* (axios.defaults.timeout), so one call is in flight at a time.
HeartbeatCall ==
    /\ renderer = "tracking"
    /\ authToken # NULL
    /\ ~heartbeats
    /\ heartbeats' = TRUE
    /\ UNCHANGED <<storeVars, sessVars, workVars, singles, renderer, crashes>>
    /\ UNCHANGED <<ackVars, cycVars, histVars>>
    /\ UNCHANGED <<intervalVars, reschedVars, streakAuto>>

\* The heartbeat post succeeds: nothing else happens.
HeartbeatSuccess ==
    /\ heartbeats
    /\ heartbeats' = FALSE
    /\ UNCHANGED <<storeVars, sessVars, workVars, singles, renderer, crashes>>
    /\ UNCHANGED <<ackVars, cycVars, histVars>>
    /\ UNCHANGED <<intervalVars, reschedVars, streakAuto>>

\* The heartbeat post fails: catch { }.
HeartbeatFailure ==
    /\ heartbeats
    /\ heartbeats' = FALSE
    /\ clean' = FALSE
    /\ UNCHANGED <<storeVars, sessVars, workVars, singles, renderer, crashes>>
    /\ UNCHANGED <<ackVars, cycVars, autoSince, loginSinceBoot>>
    /\ UNCHANGED <<intervalVars, reschedVars, streakAuto>>

\* -------------------------------------------- src/main.js: crash, restart

\* The process dies and is started again: the module-level `let`s are back
\* to their initial values, pending timers, handlers and responses are gone;
\* local.db and config.json are files and stay as they are.
Crash ==
    /\ db
    /\ crashes' = TRUE
    /\ authToken' = NULL
    /\ retryDelay' = BaseDelay
    /\ db' = FALSE
    /\ workerStarted' = FALSE
    /\ worker' = [pc |-> "off", rows |-> <<>>]
    /\ singles' = {}
    /\ renderer' = "none"
    /\ heartbeats' = FALSE
    /\ clean' = FALSE
    /\ cycStart' = {}
    /\ cycLogin' = FALSE
    /\ prevOutcome' = "none"
    /\ autoSince' = FALSE
    /\ streakAuto' = FALSE
    /\ loginSinceBoot' = FALSE
    /\ streak' = 0
    /\ UNCHANGED <<locations, seq, configFile, argvStation, backlog, ackSingle, ackBatch>>
    /\ lateRows' = {}
    /\ UNCHANGED <<intervalVars, timerVars>>

\* Mutant of CrashInDelete: the DELETEs run outside a transaction and the
\* process dies after the first of them.
CrashInDelete_NoTransaction ==
    /\ worker.pc = "upload"
    /\ locations' = locations \ {worker.rows[1]}
    /\ ackBatch' = ackBatch \cup Range(worker.rows)
    /\ crashes' = TRUE
    /\ authToken' = NULL
    /\ retryDelay' = BaseDelay
    /\ db' = FALSE
    /\ workerStarted' = FALSE
    /\ worker' = [pc |-> "off", rows |-> <<>>]
    /\ singles' = {}
    /\ renderer' = "none"
    /\ heartbeats' = FALSE
    /\ clean' = FALSE
    /\ cycStart' = {}
    /\ cycLogin' = FALSE
    /\ prevOutcome' = "none"
    /\ autoSince' = FALSE
    /\ streakAuto' = FALSE
    /\ loginSinceBoot' = FALSE
    /\ streak' = 0
    /\ lateRows' = {}
    /\ UNCHANGED <<seq, configFile, argvStation, backlog, ackSingle>>
    /\ UNCHANGED <<intervalVars, timerVars>>

\* The batch post succeeded and the process dies inside tx(), between two
\* of its DELETEs: the transaction was not committed, and SQLite rolls it
\* back from the journal when local.db is opened again, so no row of the
\* batch is deleted.  The rest is as in Crash.
CrashInDelete ==
    /\ worker.pc = "upload"
    /\ locations' = locations
    /\ ackBatch' = ackBatch \cup Range(worker.rows)
    /\ crashes' = TRUE
    /\ authToken' = NULL
    /\ retryDelay' = BaseDelay
    /\ db' = FALSE
    /\ workerStarted' = FALSE
    /\ worker' = [pc |-> "off", rows |-> <<>>]
    /\ singles' = {}
    /\ renderer' = "none"
    /\ heartbeats' = FALSE
    /\ clean' = FALSE
    /\ cycStart' = {}
    /\ cycLogin' = FALSE
    /\ prevOutcome' = "none"
    /\ autoSince' = FALSE
    /\ streakAuto' = FALSE
    /\ loginSinceBoot' = FALSE
    /\ streak' = 0
    /\ lateRows' = {}
    /\ UNCHANGED <<seq, configFile, argvStation, backlog, ackSingle>>
    /\ UNCHANGED <<intervalVars, timerVars>>

\* ------------------------------------------------------------ src/main.js

Next ==
    \/ AppReady
    \/ StartWorker
    \/ CycleNoStation
    \/ CycleLogin
    \/ CycleWithToken
    \/ LoginSuccess
    \/ LoginFailure
    \/ UploadSuccess
    \/ UploadFailure
    \/ SendLocation
    \/ \E id \in singles : SingleSuccess(id)
    \/ \E id \in singles : SingleFailure(id)
    \/ RendererNoStation
    \/ AutoLoginCall
    \/ AutoLoginSuccess
    \/ AutoLoginFailure
    \/ HeartbeatCall
    \/ HeartbeatSuccess
    \/ HeartbeatFailure
    \/ Crash
    \/ DeleteFailure
    \/ CrashInDelete

Spec == Init /\ [][Next]_vars

\* ------------------------------------------- src/main.js: fair scheduling

\* The process crashes and restarts for the last time: from then on it
\* stays up.
CrashOnce ==
    /\ ~crashes
    /\ Crash

\* The steps of main.js that read or write the store, the token or the
\* delay.  (sendHeartbeat only reads the token and is left out.)
NextLive ==
    \/ AppReady
    \/ StartWorker
    \/ CycleNoStation
    \/ CycleLogin
    \/ CycleWithToken
    \/ LoginSuccess
    \/ LoginFailure
    \/ UploadSuccess
    \/ UploadFailure
    \/ SendLocation
    \/ \E id \in singles : SingleSuccess(id)
    \/ \E id \in singles : SingleFailure(id)
    \/ RendererNoStation
    \/ AutoLoginCall
    \/ AutoLoginSuccess
    \/ AutoLoginFailure
    \/ CrashOnce

\* A step of start-up or of the sync worker that a timer or the ready event
\* triggers; at most one of them is enabled at a time.
TimerStep ==
    \/ AppReady
    \/ StartWorker
    \/ CycleNoStation
    \/ CycleLogin
    \/ CycleWithToken

\* The event loop runs every timer that is due and every ready start-up
\* step (weak fairness); the auto-login and the batch post, tried again and
\* again, succeed in the end (strong fairness).
Fairness ==
    /\ WF_vars(TimerStep)
    /\ SF_vars(LoginSuccess)
    /\ SF_vars(UploadSuccess)

SpecLive == Init /\ [][NextLive]_vars /\ Fairness

\* =================================================== src/unnamed/part_000
\* The revision with the setInterval sync worker.  Its loginIfNeeded and
\* sendLog suspend at every post; a suspended callback is a record
\*   kind  "sync" (the interval's callback) or "beat" (sendHeartbeat)
\*   pc    where it is suspended:
\*         "logNoStation"  sendLog of line 104     "login"  post of line 109
\*         "logLoginOk"    sendLog of line 115     "logLoginFail"  line 119
\*         "upload"        batch post of line 142  "beat"   post of line 194
\*         "logInfo"       sendLog of lines 158 and 200
\*         "logErr"        sendLog of the catch, lines 162 and 204
\*   rows  the batch being posted
\*   hdr   the Authorization header of the post
\*   via   how its loginIfNeeded returned true: "fast" (line 100) or "login"
\* The revision has no retryDelay, no autoLogin handler and no single upload.

\* The pcs inside loginIfNeeded.
LoginPcs == {"logNoStation", "login", "logLoginOk", "logLoginFail"}

\* A callback of `kind` suspended at `pc`, holding nothing yet.
Task(kind, pc) ==
    [kind |-> kind, pc |-> pc, rows |-> <<>>, hdr |-> NULL, via |-> NULL]

\* The suspended callbacks.
Tasks == BagToSet(tasks)

\* The suspended callbacks other than t.
Others(t) == tasks (-) SetToBag({t})

\* How many suspended callbacks are in the set S.
Count(S) == BagCardinality([t \in (DOMAIN tasks) \cap S |-> tasks[t]])

\* handleStationArgument() of part_000: the argument is written only when
\* config.json does not exist yet.
HandleStationArgument000 ==
    configFile' = IF argvStation # NULL /\ configFile = NULL
                  THEN argvStation ELSE configFile

\* app.whenReady() of part_000: open local.db, create the table if absent,
\* write the station argument, create the window, startSyncWorker() sets
\* the 10 s interval.  (The sendLog that follows changes nothing.)
AppReady000 ==
    /\ db = FALSE
    /\ db' = TRUE
    /\ HandleStationArgument000
    /\ ~syncInterval
    /\ syncInterval' = TRUE
    /\ UNCHANGED <<locations, seq, argvStation, backlog, sessVars, mainVars, tasks>>

\* What follows a loginIfNeeded() that returned true, `rest` being the other
\* suspended callbacks.  The sync callback reads the batch, returns when it
\* is empty and posts it otherwise; the heartbeat handler posts the
\* heartbeat.  Both posts carry authToken as it is now.
AfterLogin(rest, kind, via) ==
    IF kind = "sync"
    THEN LET rows == SelectLimit(locations)
         IN  IF Len(rows) = 0
             THEN tasks' = rest
             ELSE tasks' = rest (+) SetToBag({[kind |-> kind, pc |-> "upload",
                                 rows |-> rows, hdr |-> authToken, via |-> via]})
    ELSE tasks' = rest (+) SetToBag({[kind |-> kind, pc |-> "beat",
                        rows |-> <<>>, hdr |-> authToken, via |-> via]})

\* Mutant of LoginIfNeeded: without the fast path of line 100, a login is
\* posted although a token is held.
LoginIfNeeded_NoFastPath(rest, kind) ==
    IF GetStationId = NULL
    THEN tasks' = rest (+) SetToBag({Task(kind, "logNoStation")})
    ELSE tasks' = rest (+) SetToBag({Task(kind, "login")})

\* loginIfNeeded() up to its first await: with a token held it returns true
\* at once; without a station id it awaits the error log; otherwise it
\* posts the auto-login.  Nothing in it looks for a login already pending.
LoginIfNeeded(rest, kind) ==
    IF authToken # NULL
    THEN AfterLogin(rest, kind, "fast")
    ELSE IF GetStationId = NULL
         THEN tasks' = rest (+) SetToBag({Task(kind, "logNoStation")})
         ELSE tasks' = rest (+) SetToBag({Task(kind, "login")})

\* The 10 s interval fires: the async callback runs to its first await.
\* Nothing in it asks whether an earlier callback is still suspended.
IntervalFire ==
    /\ syncInterval
    /\ BagCardinality(tasks) < MaxTasks
    /\ LoginIfNeeded(tasks, "sync")
    /\ UNCHANGED <<storeVars, sessVars, mainVars, syncInterval>>

\* sendHeartbeat of part_000 is called: it runs to its first await.
HeartbeatCall000 ==
    /\ db
    /\ BagCardinality(tasks) < MaxTasks
    /\ LoginIfNeeded(tasks, "beat")
    /\ UNCHANGED <<storeVars, sessVars, mainVars, syncInterval>>

\* The auto-login post succeeds: the token is stored, the info log is awaited.
LoginOk(t) ==
    /\ t.pc = "login"
    /\ authToken' = TOKEN
    /\ tasks' = Others(t) (+) SetToBag({[t EXCEPT !.pc = "logLoginOk"]})
    /\ UNCHANGED <<storeVars, retryDelay, mainVars, syncInterval>>

\* The auto-login post fails: the error log is awaited.
LoginFail(t) ==
    /\ t.pc = "login"
    /\ tasks' = Others(t) (+) SetToBag({[t EXCEPT !.pc = "logLoginFail"]})
    /\ UNCHANGED <<storeVars, sessVars, mainVars, syncInterval>>

\* The log after a successful login is done (sent or not): loginIfNeeded
\* returns true and its caller goes on.
LoginLogged(t) ==
    /\ t.pc = "logLoginOk"
    /\ AfterLogin(Others(t), t.kind, "login")
    /\ UNCHANGED <<storeVars, sessVars, mainVars, syncInterval>>

\* The log of a failed login or of the missing station id is done:
\* loginIfNeeded returns false and its caller returns.
LoginRefused(t) ==
    /\ t.pc \in {"logNoStation", "logLoginFail"}
    /\ tasks' = Others(t)
    /\ UNCHANGED <<storeVars, sessVars, mainVars, syncInterval>>

\* The batch post succeeds: the transaction deletes the posted rows, the
\* info log is awaited.
UploadOk(t) ==
    /\ t.pc = "upload"
    /\ locations' = locations \ Range(t.rows)
    /\ tasks' = Others(t) (+) SetToBag({[t EXCEPT !.pc = "logInfo"]})
    /\ UNCHANGED <<db, seq, configFile, argvStation, backlog>>
    /\ UNCHANGED <<sessVars, mainVars, syncInterval>>

\* The batch post fails: the catch awaits the error log.
UploadFail(t) ==
    /\ t.pc = "upload"
    /\ tasks' = Others(t) (+) SetToBag({[t EXCEPT !.pc = "logErr"]})
    /\ UNCHANGED <<storeVars, sessVars, mainVars, syncInterval>>

\* The heartbeat post succeeds: the info log is awaited.
BeatOk(t) ==
    /\ t.pc = "beat"
    /\ tasks' = Others(t) (+) SetToBag({[t EXCEPT !.pc = "logInfo"]})
    /\ UNCHANGED <<storeVars, sessVars, mainVars, syncInterval>>

\* The heartbeat post fails: the catch awaits the error log.
BeatFail(t) ==
    /\ t.pc = "beat"
    /\ tasks' = Others(t) (+) SetToBag({[t EXCEPT !.pc = "logErr"]})
    /\ UNCHANGED <<storeVars, sessVars, mainVars, syncInterval>>

\* The info log at the end of the try block is done: the callback returns.
Logged(t) ==
    /\ t.pc = "logInfo"
    /\ tasks' = Others(t)
    /\ UNCHANGED <<storeVars, sessVars, mainVars, syncInterval>>

\* The error log of the catch is done: authToken = null, the callback returns.
ErrorLogged(t) ==
    /\ t.pc = "logErr"
    /\ authToken' = NULL
    /\ tasks' = Others(t)
    /\ UNCHANGED <<storeVars, retryDelay, mainVars, syncInterval>>

\* sendLocation of part_000: insert the row, nothing else.
SendLocation000 ==
    /\ db
    /\ seq - backlog < MaxInserts
    /\ seq' = seq + 1
    /\ locations' = locations \cup {seq + 1}
    /\ UNCHANGED <<db, configFile, argvStation, backlog>>
    /\ UNCHANGED <<sessVars, mainVars, intervalVars>>

NextInterval ==
    \/ AppReady000
    \/ IntervalFire
    \/ HeartbeatCall000
    \/ \E t \in Tasks : LoginOk(t)
    \/ \E t \in Tasks : LoginFail(t)
    \/ \E t \in Tasks : LoginLogged(t)
    \/ \E t \in Tasks : LoginRefused(t)
    \/ \E t \in Tasks : UploadOk(t)
    \/ \E t \in Tasks : UploadFail(t)
    \/ \E t \in Tasks : BeatOk(t)
    \/ \E t \in Tasks : BeatFail(t)
    \/ \E t \in Tasks : Logged(t)
    \/ \E t \in Tasks : ErrorLogged(t)
    \/ SendLocation000

SpecInterval == Init /\ [][NextInterval]_vars

\* =================================================== src/unnamed/part_001
\* The revision with the self-rescheduling sync worker: syncWorker runs one
\* cycle and arms the timer of the next with scheduleNextRun().  Its IPC
\* handlers autoLogin, sendLocation and sendHeartbeat are those of main.js
\* (they differ in console output only), so the actions above model them.
\* `worker` is syncWorker's position: "boot" (the 5 s timer), "sleep" (not
\* running), "login" (in tryReLogin's post), "upload" (in the batch post).

\* app.whenReady() of part_001: as in main.js; handleStationArgument()
\* stores the --station= value in config.json.
AppReady001 ==
    /\ db = FALSE
    /\ db' = TRUE
    /\ HandleStationArgument
    /\ renderer' = "init"
    /\ worker' = [pc |-> "boot", rows |-> <<>>]
    /\ UNCHANGED <<locations, seq, argvStation, backlog, workerStarted, singles, heartbeats>>
    /\ UNCHANGED <<sessVars, crashes, ackVars, cycVars, histVars>>
    /\ UNCHANGED <<intervalVars, reschedVars, streakAuto>>

\* The 5 s timer: startSyncWorker() sets workerRunning, and
\* scheduleNextRun() arms the first sync timer.
StartWorker001 ==
    /\ worker.pc = "boot"
    /\ ~workerRunning
    /\ workerRunning' = TRUE
    /\ timers' = timers + 1
    /\ armedDelay' = retryDelay
    /\ worker' = Idle
    /\ UNCHANGED <<storeVars, sessVars, workerStarted, ipcVars, crashes>>
    /\ UNCHANGED <<ackVars, cycVars, histVars, intervalVars, streak, streakAuto>>

\* Lines 253-272 and 280, reached with a token held; `delay` is retryDelay
\* and `armed` the number of pending sync timers as they are then.  With
\* nothing pending the cycle has succeeded: the delay is reset and
\* scheduleNextRun() arms a timer.  Otherwise the batch is posted.
ReadAndUpload001(delay, armed) ==
    LET rows == SelectLimit(locations)
    IN  IF Len(rows) = 0
        THEN /\ retryDelay' = BaseDelay
             /\ worker' = Idle
             /\ timers' = armed + 1
             /\ armedDelay' = BaseDelay
             /\ streak' = 0
             /\ streakAuto' = FALSE
             /\ lateRows' = {}
        ELSE /\ retryDelay' = delay
             /\ worker' = [pc |-> "upload", rows |-> rows]
             /\ timers' = armed
             /\ armedDelay' = armedDelay
             /\ streak' = streak
             /\ streakAuto' = streakAuto
             /\ lateRows' = {}

\* A sync timer fires with no token and no station id: tryReLogin returns
\* false at once, the delay doubles, scheduleNextRun() arms a timer.
Sync001NoStation ==
    /\ timers > 0
    /\ workerRunning
    /\ worker.pc = "sleep"
    /\ authToken = NULL
    /\ GetStationId = NULL
    /\ retryDelay' = Backoff(retryDelay)
    /\ timers' = (timers - 1) + 1
    /\ armedDelay' = Backoff(retryDelay)
    /\ StreakUp
    /\ UNCHANGED <<storeVars, authToken, workVars, ipcVars, crashes>>
    /\ UNCHANGED <<ackVars, cycVars, histVars, intervalVars, workerRunning, streakAuto>>

\* A sync timer fires with no token: tryReLogin posts the auto-login.
Sync001Login ==
    /\ timers > 0
    /\ workerRunning
    /\ worker.pc = "sleep"
    /\ authToken = NULL
    /\ GetStationId # NULL
    /\ timers' = timers - 1
    /\ armedDelay' = armedDelay
    /\ worker' = [pc |-> "login", rows |-> <<>>]
    /\ UNCHANGED <<storeVars, sessVars, workerStarted, ipcVars, crashes>>
    /\ UNCHANGED <<ackVars, cycVars, histVars, intervalVars, workerRunning, streak, streakAuto>>

\* A sync timer fires with a token held: straight to the batch.
Sync001WithToken ==
    /\ timers > 0
    /\ workerRunning
    /\ worker.pc = "sleep"
    /\ authToken # NULL
    /\ ReadAndUpload001(retryDelay, timers - 1)
    /\ UNCHANGED <<storeVars, authToken, workerStarted, ipcVars, crashes>>
    /\ UNCHANGED <<ackSingle, ackBatch, cycVars, histVars, intervalVars, workerRunning>>

\* tryReLogin's post succeeds: authToken = res.data.token and
\* retryDelay = 10000 (line 228), then the cycle goes on.
Login001Success ==
    /\ worker.pc = "login"
    /\ authToken' = TOKEN
    /\ ReadAndUpload001(BaseDelay, timers)
    /\ loginSinceBoot' = TRUE
    /\ UNCHANGED <<storeVars, workerStarted, ipcVars, crashes>>
    /\ UNCHANGED <<ackSingle, ackBatch, cycVars, clean, autoSince, intervalVars, workerRunning>>

\* Mutant of Login001Failure: the login failure returns without calling
\* scheduleNextRun().
Login001Failure_NoReschedule ==
    /\ worker.pc = "login"
    /\ retryDelay' = Backoff(retryDelay)
    /\ worker' = Idle
    /\ timers' = timers
    /\ armedDelay' = armedDelay
    /\ StreakUp
    /\ clean' = FALSE
    /\ UNCHANGED <<storeVars, authToken, workerStarted, ipcVars, crashes>>
    /\ UNCHANGED <<ackVars, cycVars, autoSince, loginSinceBoot, intervalVars>>
    /\ UNCHANGED <<workerRunning, streakAuto>>

\* tryReLogin's post fails: the delay doubles, scheduleNextRun().
Login001Failure ==
    /\ worker.pc = "login"
    /\ retryDelay' = Backoff(retryDelay)
    /\ worker' = Idle
    /\ timers' = timers + 1
    /\ armedDelay' = Backoff(retryDelay)
    /\ StreakUp
    /\ clean' = FALSE
    /\ UNCHANGED <<storeVars, authToken, workerStarted, ipcVars, crashes>>
    /\ UNCHANGED <<ackVars, cycVars, autoSince, loginSinceBoot, intervalVars>>
    /\ UNCHANGED <<workerRunning, streakAuto>>

\* The batch post succeeds: the transaction deletes the posted rows, the
\* delay is reset, scheduleNextRun().
Upload001Success ==
    /\ worker.pc = "upload"
    /\ locations' = locations \ Range(worker.rows)
    /\ ackBatch' = ackBatch \cup Range(worker.rows)
    /\ retryDelay' = BaseDelay
    /\ worker' = Idle
    /\ timers' = timers + 1
    /\ armedDelay' = BaseDelay
    /\ streak' = 0
    /\ streakAuto' = FALSE
    /\ UNCHANGED <<db, seq, configFile, argvStation, backlog>>
    /\ UNCHANGED <<authToken, workerStarted, ipcVars, crashes, ackSingle, lateRows>>
    /\ UNCHANGED <<cycVars, histVars, intervalVars, workerRunning>>

\* The batch post fails: catch { authToken = null; the delay doubles },
\* scheduleNextRun().
Upload001Failure ==
    /\ worker.pc = "upload"
    /\ authToken' = NULL
    /\ retryDelay' = Backoff(retryDelay)
    /\ worker' = Idle
    /\ timers' = timers + 1
    /\ armedDelay' = Backoff(retryDelay)
    /\ StreakUp
    /\ clean' = FALSE
    /\ UNCHANGED <<storeVars, workerStarted, ipcVars, crashes>>
    /\ UNCHANGED <<ackVars, cycVars, autoSince, loginSinceBoot, intervalVars>>
    /\ UNCHANGED <<workerRunning, streakAuto>>

\* The batch post succeeds and the transaction throws (an I/O error, a full
\* disk): it is rolled back, no row of the batch is deleted, and the catch
\* runs: authToken = null, the delay doubles; then scheduleNextRun().
Delete001Failure ==
    /\ worker.pc = "upload"
    /\ locations' = locations
    /\ ackBatch' = ackBatch \cup Range(worker.rows)
    /\ authToken' = NULL
    /\ retryDelay' = Backoff(retryDelay)
    /\ worker' = Idle
    /\ timers' = timers + 1
    /\ armedDelay' = Backoff(retryDelay)
    /\ StreakUp
    /\ clean' = FALSE
    /\ UNCHANGED <<db, seq, configFile, argvStation, backlog>>
    /\ UNCHANGED <<workerStarted, ipcVars, crashes, ackSingle, lateRows>>
    /\ UNCHANGED <<cycVars, histVars, intervalVars>>
    /\ UNCHANGED <<workerRunning, streakAuto>>

\* before-quit: workerRunning = false, db.close(); the handler does not
\* prevent the quit, so the process exits: pending timers, handlers and
\* responses are gone, and a later start finds the module-level `let`s at
\* their initial values; local.db and config.json stay as they are.
BeforeQuit001 ==
    /\ db
    /\ workerRunning' = FALSE
    /\ db' = FALSE
    /\ timers' = 0
    /\ armedDelay' = BaseDelay
    /\ authToken' = NULL
    /\ retryDelay' = BaseDelay
    /\ worker' = [pc |-> "off", rows |-> <<>>]
    /\ singles' = {}
    /\ renderer' = "none"
    /\ heartbeats' = FALSE
    /\ streak' = 0
    /\ streakAuto' = FALSE
    /\ clean' = FALSE
    /\ lateRows' = {}
    /\ UNCHANGED <<locations, seq, configFile, argvStation, backlog>>
    /\ UNCHANGED <<workerStarted, crashes, ackSingle, ackBatch>>
    /\ UNCHANGED <<cycVars, histVars, intervalVars>>

NextResched ==
    \/ AppReady001
    \/ StartWorker001
    \/ Sync001NoStation
    \/ Sync001Login
    \/ Sync001WithToken
    \/ Login001Success
    \/ Login001Failure
    \/ Upload001Success
    \/ Upload001Failure
    \/ Delete001Failure
    \/ BeforeQuit001
    \/ SendLocation
    \/ \E id \in singles : SingleSuccess(id)
    \/ \E id \in singles : SingleFailure(id)
    \/ RendererNoStation
    \/ AutoLoginCall
    \/ AutoLoginSuccess
    \/ AutoLoginFailure
    \/ HeartbeatCall
    \/ HeartbeatSuccess
    \/ HeartbeatFailure

SpecResched == Init /\ [][NextResched]_vars

\* ======================================================= claims, main.js

\* A step in which the sync cycle's batch post fails (the catch of line 296).
UploadFailStep == worker.pc = "upload" /\ worker'.pc = "sleep" /\ prevOutcome' = "uploadFail"

\* A step in which a sync cycle reads its batch and posts it.
ReadStep == worker.pc # "upload" /\ worker'.pc = "upload"

\* C1 (no loss): every id the store has ever assigned and no longer holds was
\* contained in an upload the remote service acknowledged, the batch that
\* carried it or its own single-record upload; nothing is deleted otherwise.
C1_NoLoss ==
    \A id \in 1..seq : id \notin locations => id \in ackSingle \cup ackBatch

\* Records were deleted after both kinds of acknowledged upload, calls have
\* failed, and records are still pending.
C1_Witness ==
    /\ ~clean
    /\ ackBatch # {}
    /\ ackSingle # {}
    /\ locations # {}

\* C2 as stated (batch upload failure): at the end of a cycle whose batch post
\* failed every record pending at the cycle's start is still pending and the
\* token is cleared, and the cycle after it posts a batch only after it has
\* logged in itself.
C2_Original ==
    [][ /\ UploadFailStep => (cycStart \subseteq locations' /\ authToken' = NULL)
        /\ (worker'.pc = "upload" /\ prevOutcome' = "uploadFail") => cycLogin'
      ]_vars

\* C2 as amended: the failed cycle deletes nothing itself, so a record pending
\* at its start is missing at its end only if its own single-record upload was
\* acknowledged meanwhile; the token is cleared at the cycle's end; the next
\* cycle posts a batch only after a login, its own or an autoLogin call that
\* stored a token after the failed cycle ended.
C2_UploadFailure ==
    [][ /\ UploadFailStep =>
            /\ (cycStart \ locations') \subseteq ackSingle'
            /\ Range(worker.rows) \ ackSingle' \subseteq locations'
            /\ authToken' = NULL
        /\ (worker'.pc = "upload" /\ prevOutcome' = "uploadFail") =>
            (cycLogin' \/ autoSince')
      ]_vars

\* A cycle that follows a failed batch upload has logged in again and is
\* posting the batch that failed before.
C2_Witness ==
    /\ prevOutcome = "uploadFail"
    /\ worker.pc = "upload"
    /\ cycLogin
    /\ ~autoSince
    /\ Cardinality(locations) >= BatchLimit

\* C6 (backoff bounds): retryDelay stays within [10000, 60000].
C6_BackoffBounds ==
    /\ retryDelay >= BaseDelay
    /\ retryDelay <= MaxDelay

\* The delay has reached the cap after repeated failures.
C6_Witness ==
    /\ retryDelay = MaxDelay
    /\ prevOutcome \in {"loginFail", "uploadFail"}

\* The batch `rows` is the oldest part of `table`: strictly ascending ids of
\* the table, as many as the table holds up to 20, none of them newer than a
\* row left out.
BatchIsOldest(rows, table) ==
    /\ \A p \in 1..Len(rows) : \A q \in 1..Len(rows) : p < q => rows[p] < rows[q]
    /\ Range(rows) \subseteq table
    /\ Len(rows) = Min(Cardinality(table), BatchLimit)
    /\ \A a \in table \ Range(rows) : \A b \in Range(rows) : b < a

C8_NoDuplicate ==
    clean => ackSingle \cap ackBatch = {}

\* A crash, or the restart that follows one.
CrashStep == db /\ ~db'
RestartStep == ~db /\ db' /\ crashes

\* Across a crash and across the restart the stored rows are kept and the
\* token is absent.
C10_Durable ==
    (CrashStep \/ RestartStep) => (locations' = locations /\ authToken' = NULL)

\* C10 as stated (crash durability and re-authentication): rows survive the
\* restart, the token is absent, and the first sync cycle after the restart
\* logs in itself before it posts a batch.
C10_Original ==
    [][ /\ C10_Durable
        /\ (crashes' /\ prevOutcome' = "none" /\ worker'.pc = "upload") => cycLogin'
      ]_vars

\* C10 as amended: rows survive the restart, the token is absent until a
\* login succeeds, and no cycle posts a batch before a login has succeeded
\* since the restart, the cycle's own tryReLogin or the autoLogin handler.
C10_CrashRestart ==
    [][ /\ C10_Durable
        /\ ~loginSinceBoot' => authToken' = NULL
        /\ (crashes' /\ worker'.pc = "upload") => loginSinceBoot'
      ]_vars

\* After a crash with records pending, the restarted worker posts a batch.
C10_Witness ==
    /\ crashes
    /\ worker.pc = "upload"
    /\ prevOutcome = "none"
    /\ locations # {}

\* A station id is configured: in config.json or given as --station=<id>.
StationConfigured == configFile # NULL \/ argvStation # NULL

\* Every record the store has ever held is gone from it and was delivered
\* by an acknowledged upload.
Drained ==
    /\ locations = {}
    /\ \A id \in 1..seq : id \in ackSingle \cup ackBatch

\* C11 (eventual delivery): with a station id configured, timers served
\* fairly and logins and batch uploads succeeding in the end, the store
\* drains again and again: from any state on, whatever failed before, a
\* state follows in which every record inserted so far is gone from the
\* store and was delivered by an acknowledged upload.
C11_EventualDelivery ==
    StationConfigured ~> Drained

\* After failed calls, every record, the ones sendLocation inserted
\* included, has been delivered and the store is empty.
C11_Witness ==
    /\ ~clean
    /\ seq = backlog + MaxInserts
    /\ locations = {}
    /\ ackBatch \ (1..backlog) # {}
    /\ prevOutcome = "ok"

\* A step in which the sync cycle's batch post is acknowledged and the
\* cycle ends.
UploadOkStep == worker.pc = "upload" /\ worker'.pc = "sleep" /\ prevOutcome' = "ok"

\* C12 (batch scenario): no batch holds more than 20 records; a cycle whose
\* upload succeeds, the store being at the acknowledgement as the cycle found
\* it (nothing inserted, nothing deleted by a single-record upload), uploads
\* exactly min(pending, 20) records and leaves the others (with 25 pending:
\* 20 uploaded, 5 left; with those 5 pending: 5 uploaded, the store empty),
\* and retryDelay is 10000 after it.
C12_BatchScenario ==
    [][ /\ Len(worker'.rows) <= BatchLimit
        /\ (UploadOkStep /\ locations = cycStart /\ Range(worker.rows) \subseteq locations) =>
              /\ Len(worker.rows) = Min(Cardinality(cycStart), BatchLimit)
              /\ locations' = cycStart \ Range(worker.rows)
              /\ Cardinality(locations') = Cardinality(cycStart) - Len(worker.rows)
              /\ Cardinality(cycStart) <= BatchLimit => locations' = {}
              /\ retryDelay' = BaseDelay
      ]_vars

\* The backlog of more than 20 records has been uploaded by cycles that all
\* succeeded, nothing else having happened: the store is empty and the delay
\* at its base.
C12_Witness ==
    /\ clean
    /\ backlog > BatchLimit
    /\ seq = backlog
    /\ ackSingle = {}
    /\ ackBatch = 1..backlog
    /\ locations = {}
    /\ prevOutcome = "ok"
    /\ retryDelay = BaseDelay

\* C13 (authentication-failure scenario): while no login has succeeded since
\* the process started (no token held, every attempt failed), the delay the
\* worker waits is 10000 before its first attempt, 20000 after one failed
\* attempt, 40000 after two, and 60000 after three or more.
C13_AuthFailureDelays ==
    (worker.pc = "sleep" /\ ~loginSinceBoot) =>
        /\ authToken = NULL
        /\ retryDelay = IF streak = 0 THEN BaseDelay
                        ELSE IF streak = 1 THEN 2 * BaseDelay
                        ELSE IF streak = 2 THEN 4 * BaseDelay
                        ELSE MaxDelay

\* With a station id configured, three or more login attempts in a row have
\* failed and the worker waits the capped delay before the next.
C13_Witness ==
    /\ worker.pc = "sleep"
    /\ ~loginSinceBoot
    /\ GetStationId # NULL
    /\ prevOutcome = "loginFail"
    /\ streak = MaxStreak
    /\ retryDelay = MaxDelay

\* A step in which a sync cycle completes fully successfully: with a token
\* held, the batch was acknowledged or nothing was pending.
CycleSuccessStep ==
    /\ worker.pc \in {"sleep", "login", "upload"}
    /\ worker'.pc = "sleep"
    /\ prevOutcome' \in {"ok", "empty"}
    /\ authToken' # NULL
    /\ streak' = 0
    /\ renderer' = renderer

\* C14 as stated (backoff reset condition): while failures are being backed
\* off (retryDelay above 10000) and the process keeps running, only a step
\* that completes a fully successful sync cycle sets retryDelay back to
\* 10000; a successful login by itself does not.
C14_ResetOnlyOnSuccess ==
    [][ (retryDelay # BaseDelay /\ retryDelay' = BaseDelay /\ ~CrashStep)
            => CycleSuccessStep ]_vars

\* The ids confirmed delivered and deleted: acknowledged by the service, in
\* a batch or as a single record, and no longer in the store.
Delivered == (ackSingle \cup ackBatch) \ locations

\* C15 as stated (cross-cycle ordering): every record a sync cycle reads and
\* posts has a higher id than every record already confirmed delivered and
\* deleted, whether a batch or a single-record upload delivered it.
C15_CrossCycleOrder ==
    [][ ReadStep => \A r \in Range(worker'.rows) : \A d \in Delivered : d < r ]_vars

\* C16 (delete set equals uploaded set): the step that ends a cycle whose
\* batch was acknowledged removes from the store exactly the ids of the batch
\* it sent; every other row, in particular one that sendLocation inserted
\* while the post was in flight, is still in the store after it.
C16_DeleteSet ==
    [][ UploadOkStep =>
          /\ locations' = locations \ Range(worker.rows)
          /\ \A id \in lateRows \ Range(worker.rows) : id \in locations => id \in locations'
      ]_vars

\* In a run without any failure, a cycle has ended with its batch
\* acknowledged, and a record inserted while that batch was in flight is
\* still pending and was not part of a batch.
C16_Witness ==
    /\ clean
    /\ worker.pc = "sleep"
    /\ prevOutcome = "ok"
    /\ \E id \in lateRows : id \in locations /\ id \notin ackBatch

\* A step that ends the batch post of a cycle: the acknowledgement followed
\* by the transaction, a failure, or the death of the process.
BatchEndStep == worker.pc = "upload" /\ worker'.pc # "upload"

\* C17 (atomic batch delete): a step that ends a cycle's batch post, the
\* death of the process inside the transaction and a failing DELETE
\* included, removes from the store either every id of the batch still in
\* it or none, never a part of them; the restart leaves the store as the
\* crash left it.
C17_AtomicDelete ==
    [][ /\ BatchEndStep =>
              \/ locations' = locations
              \/ locations' = locations \ Range(worker.rows)
        /\ RestartStep => locations' = locations
      ]_vars

\* The process died inside the transaction of an acknowledged batch of
\* several records and has restarted: every record of the batch is still in
\* the store.
C17_Witness ==
    /\ crashes
    /\ db
    /\ Cardinality(ackBatch \cap locations) >= 2
    /\ ackBatch \ locations = {}

\* A cycle's batch post ends, neither by a failed post nor by an I/O error
\* in the transaction, and a record of the batch is already gone: its own
\* single-record upload was acknowledged and deleted it first.
BatchDeletesSecond ==
    /\ BatchEndStep
    /\ worker'.pc = "sleep"
    /\ prevOutcome' \notin {"uploadFail", "deleteFail"}
    /\ \E id \in Range(worker.rows) : id \in ackSingle /\ id \notin locations

\* The single-record upload of `id` is acknowledged after a batch that held
\* the record was acknowledged and deleted it.
SingleDeletesSecond(id) ==
    /\ id \in singles
    /\ id \notin singles'
    /\ id \in ackSingle'
    /\ id \in ackBatch
    /\ id \notin locations

\* C18 (idempotent delete under the single-record / batch race): when both
\* paths upload and delete the same id, the delete that comes second removes
\* nothing else and raises nothing.  If it is the batch's, the store loses
\* exactly the remaining ids of the batch and the cycle ends as a success
\* (token kept, retryDelay 10000); if it is sendLocation's, the store, the
\* token, the delay and the worker are left as they are.
C18_IdempotentDelete ==
    [][ /\ BatchDeletesSecond =>
              /\ locations' = locations \ Range(worker.rows)
              /\ authToken # NULL
              /\ authToken' = authToken
              /\ retryDelay' = BaseDelay
              /\ prevOutcome' = "ok"
        /\ \A id \in singles : SingleDeletesSecond(id) =>
              /\ locations' = locations
              /\ UNCHANGED <<authToken, retryDelay, worker, prevOutcome>>
      ]_vars

\* A record was delivered and deleted by both paths, and the cycle whose
\* batch carried it together with other records ended as a success.
C18_Witness ==
    /\ ackSingle \cap ackBatch # {}
    /\ ackBatch \ ackSingle # {}
    /\ worker.pc = "sleep"
    /\ prevOutcome = "ok"
    /\ authToken # NULL
    /\ retryDelay = BaseDelay

\* A step in which the heartbeat post fails while the process keeps running
\* (seen as the first failed call of the run).
HeartbeatFailStep ==
    /\ heartbeats
    /\ ~heartbeats'
    /\ clean
    /\ ~clean'
    /\ db'

\* C19 as stated (heartbeat failure): a failed heartbeat request clears the
\* session token and changes neither the pending records nor retryDelay.
C19_HeartbeatFailure ==
    [][ HeartbeatFailStep =>
          /\ authToken' = NULL
          /\ locations' = locations
          /\ retryDelay' = retryDelay
      ]_vars

\* A step in which a cycle's tryReLogin fails: its post fails, or no station
\* id is configured and it returns false at once.
LoginFailStep ==
    \/ /\ worker.pc = "login"
       /\ worker'.pc # "login"
       /\ ~cycLogin'
       /\ db'
    \/ /\ worker.pc = "sleep"
       /\ authToken = NULL
       /\ GetStationId = NULL
       /\ renderer' = renderer
       /\ db'

\* C21 (authentication failure leaves the outbox untouched): the step in
\* which a cycle's login fails doubles retryDelay up to 60000, posts no
\* batch (the worker goes back to its timer), acknowledges and deletes
\* nothing, and leaves the pending records as they are; the step that posts
\* the login changes no record either.
C21_LoginFailureFrame ==
    [][ /\ LoginFailStep =>
              /\ retryDelay' = Min(retryDelay * 2, MaxDelay)
              /\ worker' = Idle
              /\ locations' = locations
              /\ seq' = seq
              /\ ackBatch' = ackBatch
        /\ (worker.pc = "sleep" /\ worker'.pc = "login") => locations' = locations
      ]_vars

\* With a station id configured and records pending, a cycle's login has
\* failed: the delay is doubled, the records are all there.
C21_Witness ==
    /\ worker.pc = "sleep"
    /\ prevOutcome = "loginFail"
    /\ GetStationId # NULL
    /\ retryDelay = 2 * BaseDelay
    /\ backlog > 0
    /\ locations = 1..seq

\* C22 (ingestion always queues with a fresh id): a step that assigns an id
\* (a sendLocation call, token held or not) adds exactly one record to the
\* store, under an id greater than every id present or delivered before, and
\* posts at most that record's single upload; an id that has left the store
\* never comes back, and the store holds assigned ids only.
C22_FreshId ==
    [][ /\ seq' # seq =>
              /\ seq' = seq + 1
              /\ seq' \notin locations
              /\ locations' = locations \cup {seq'}
              /\ \A id \in locations \cup ackSingle \cup ackBatch : id < seq'
              /\ singles' \ singles \subseteq {seq'}
              /\ (authToken = NULL) => singles' = singles
        /\ \A id \in 1..seq : id \notin locations => id \notin locations'
        /\ locations' \subseteq 1..seq'
      ]_vars

\* After earlier records were delivered and deleted, a new record is in the
\* store under the next id; no token is held and no single upload of it is
\* in flight.
C22_Witness ==
    /\ renderer = "tracking"
    /\ authToken = NULL
    /\ singles = {}
    /\ seq = backlog + 1
    /\ seq \in locations
    /\ seq \notin ackSingle \cup ackBatch
    /\ ackBatch # {}
    /\ ackBatch \cap locations = {}

\* A step in which the single-record upload of `id` fails while the process
\* keeps running: the call is no longer in flight and was not acknowledged.
SingleFailStep(id) ==
    /\ id \in singles
    /\ id \notin singles'
    /\ id \notin ackSingle'
    /\ db'

\* C23 (single-record upload failure is absorbed): the step in which a
\* sendLocation call's single upload fails changes nothing but the call
\* itself: the store (the inserted record stays for the batch cycle), the
\* token, retryDelay, the sync worker and the renderer's loops are as before.
C23_SingleFailureAbsorbed ==
    [][ \A id \in singles : SingleFailStep(id) =>
          /\ locations' = locations
          /\ authToken' = authToken
          /\ retryDelay' = retryDelay
          /\ worker' = worker
          /\ renderer' = renderer
      ]_vars

\* Before the worker's first cycle and with the token of autoLogin held, the
\* single upload of the inserted record has failed: the record is pending,
\* undelivered, and nothing is in flight.
C23_Witness ==
    /\ ~crashes
    /\ worker.pc = "sleep"
    /\ prevOutcome = "none"
    /\ authToken # NULL
    /\ retryDelay = BaseDelay
    /\ renderer = "tracking"
    /\ seq = backlog + 1
    /\ seq \in locations
    /\ seq \notin ackSingle \cup ackBatch
    /\ singles = {}

\* ========================================= claims, src/unnamed/part_000

\* The suspended sync-interval callbacks, and the callbacks awaiting the
\* auto-login post.
SyncTasks == {t \in Tasks : t.kind = "sync"}
LoginPosts == {t \in Tasks : t.pc = "login"}

\* C3 as stated (non-overlapping cycles): while a sync cycle is suspended in
\* its login or its batch post it is the only cycle executing, so no two
\* cycles are posting batches that share a record.
C3_NonOverlap ==
    /\ (\E t \in SyncTasks : t.pc \in {"login", "upload"}) => Count(SyncTasks) <= 1
    /\ \A t \in Tasks : t.pc = "upload" => tasks[t] = 1
    /\ \A t, u \in Tasks :
         (t # u /\ t.pc = "upload" /\ u.pc = "upload") => Range(t.rows) \cap Range(u.rows) = {}

\* C4 as stated (single login in flight): at most one auto-login post is in
\* flight at any time.
C4_SingleLogin ==
    Count(LoginPosts) <= 1

\* A step that starts a callback, which calls loginIfNeeded first: the
\* interval firing or a sendHeartbeat call.  (A sync callback that finds a
\* token and an empty table returns at once and leaves no trace.)
CallStep == BagCardinality(tasks') = BagCardinality(tasks) + 1

\* C9 (idempotent fast path): a loginIfNeeded call made while a token is
\* held returns true at once (its caller is at its own post, carrying the
\* token), posts neither a login nor a log, and leaves the token as it is.
C9_FastPath ==
    [][ (authToken # NULL /\ CallStep) =>
            /\ authToken' = authToken
            /\ \A pc \in LoginPcs :
                 BagCardinality([t \in {x \in DOMAIN tasks' : x.pc = pc} |-> tasks'[t]])
                   = Count({x \in Tasks : x.pc = pc})
            /\ \A t \in BagToSet(tasks' (-) tasks) :
                 /\ t.pc \in {"upload", "beat"}
                 /\ t.via = "fast"
                 /\ t.hdr = authToken
      ]_vars

\* With a token held, a sync callback and a heartbeat call have both passed
\* loginIfNeeded by its fast path and no login is in flight.
C9_Witness ==
    /\ authToken # NULL
    /\ \E t \in Tasks : t.kind = "sync" /\ t.pc = "upload" /\ t.via = "fast"
    /\ \E t \in Tasks : t.kind = "beat" /\ t.pc = "beat" /\ t.via = "fast"
    /\ \A t \in Tasks : t.pc \notin LoginPcs

\* C20 as stated (batch upload carries a held token): every batch post a
\* sync cycle has issued was sent with a token held and carries it in its
\* Authorization header, also when the token was cleared while the cycle's
\* loginIfNeeded was suspended.
C20_BatchCarriesToken ==
    \A t \in Tasks : (t.kind = "sync" /\ t.pc = "upload") => t.hdr # NULL

\* C24 as stated (missing station identifier): with no station id
\* configured the token stays absent and no callback is ever suspended in a
\* network call: loginIfNeeded has returned false at once, without a post.
C24_NoStationNoCall ==
    (db /\ GetStationId = NULL) =>
        /\ authToken = NULL
        /\ Tasks = {}

\* ========================================= claims, src/unnamed/part_001

\* C5 as stated (backoff monotonicity): between cycles, after N consecutive
\* failed cycles retryDelay is min(10000 * 2^N, 60000), and after a fully
\* successful cycle (N = 0) it is 10000.  (Stated for the streaks in which
\* the autoLogin handler has not reset the delay.)
C5_Backoff ==
    (worker.pc = "sleep" /\ ~streakAuto) =>
        retryDelay = Min(BaseDelay * (2 ^ streak), MaxDelay)

\* The worker of part_001 is between cycles with its flag set.
Waiting001 == workerRunning /\ worker.pc = "sleep"

\* A step in which a cycle of syncWorker ends: the worker leaves a login or
\* an upload and sleeps, or a timer fires and the cycle is over in the same
\* step (no station, empty outbox), which shows in the delay or in the timer.
CycleEnd001 ==
    /\ workerRunning /\ workerRunning'
    /\ worker'.pc = "sleep"
    /\ renderer' = renderer
    /\ \/ worker.pc \in {"login", "upload"}
       \/ /\ worker.pc = "sleep"
          /\ retryDelay' # retryDelay \/ armedDelay' # armedDelay

\* C25 (self-rescheduling, part_001): while workerRunning is set, every cycle,
\* whatever its outcome (login failure, empty outbox, upload success, upload
\* failure, a thrown error), ends with exactly one sync timer pending, armed
\* with retryDelay as that cycle left it; there are never two sync timers
\* pending, no timer is pending while a cycle is in a login or an upload, and
\* a sleeping worker always has its next run armed.
C25_SelfRescheduling ==
    [][ /\ timers' <= 1
        /\ (workerRunning' /\ worker'.pc \in {"login", "upload"}) => timers' = 0
        /\ Waiting001' => timers' = 1
        /\ CycleEnd001 => /\ timers' = 1
                          /\ armedDelay' = retryDelay' ]_vars

\* Three login failures in a row: the worker sleeps with one timer pending,
\* armed with the capped delay.
C25_Witness ==
    /\ Waiting001
    /\ timers = 1
    /\ authToken = NULL
    /\ streak = MaxStreak
    /\ armedDelay = MaxDelay
    /\ retryDelay = MaxDelay

====
